---- MODULE Spec2Model ----
(***************************************************************************)
(* sails-model-builder: a fluent builder of Sails model descriptors and    *)
(* the lifecycle dispatcher that wraps the framework's lifecycle callbacks *)
(* as subscribable events.                                                  *)
(*                                                                         *)
(* Two drafts of the module live in the repository: the current one, with  *)
(* model([model]), and an older one, with create(model).  The variable     *)
(* impl says which of the two the host has loaded.                         *)
(***************************************************************************)
EXTENDS Naturals, Sequences, FiniteSets, TLC

VARIABLES
  impl,          \* "current" or "draft": the module file in use
  workingModel,  \* the descriptor the builder works on (an id, or "undefined")
  models,        \* every descriptor object: id -> its keys
  fnProps,       \* own properties of the function objects used as descriptors
  exported,      \* module.exports after export(module) (an id, or "undefined")
  subs,          \* the event manager: the subscriptions <<name, handler>>, in order
  unsub,         \* history: the subscriptions removed and not made again
  trigs,         \* the trampoline invocations made so far, each with its closure
  subsAtModel,   \* history: <<descriptor, name, handler>> subscribed when the
                 \* descriptor was last made the working model
  last,          \* the last builder call on the attribute store, with the store before it
  calls          \* how many builder calls on the attribute store were made

vars == <<impl, workingModel, models, fnProps, exported, subs, unsub, trigs,
          subsAtModel, last, calls>>

dispatcherVars == <<subs, unsub, trigs>>
storeVars == <<fnProps, last, calls>>

---------------------------------------------------------------------------
(* Bounds of the model *)

MaxSubs == 2       \* subscriptions held at a time, over all lifecycles
MaxTriggers == 1   \* trampoline invocations whose closures are still held
MaxCalls == 3      \* builder calls on the attribute store in one run
MaxPending == 2    \* invocations held at a time where invocations overlap

---------------------------------------------------------------------------
(* The lifecycle names *)

lifecycles ==
  << "beforeValidate", "afterValidate", "beforeCreate", "afterCreate",
     "beforeUpdate", "afterUpdate", "beforeDestroy", "afterDestroy" >>

Lifecycles == { lifecycles[i] : i \in 1..Len(lifecycles) }

\* The names handlers are subscribed to in the runs explored, and the names
\* the framework invokes (one of them never has a subscriber).
SubscribedNames == { "beforeCreate" }
TriggeredNames == SubscribedNames \cup { "afterDestroy" }

Handlers == { "h1", "h2" }
Instances == { "rec1" }

\* Argument lists a handler passes to the continuation it was given: none or
\* several arguments in a call made during the synchronous pass, one argument
\* in a call made after the trampoline returned.
ArgLists == { <<>>, <<"err", "extra">> }
LaterArgLists == { <<"err">> }

\* What a handler does when it is invoked: during the synchronous pass it does
\* nothing, calls assume(), or calls the continuation with args; later is TRUE
\* when it keeps the continuation and calls it after the trampoline returned.
Behaviours ==
  { [sync |-> "none", args |-> <<>>, later |-> FALSE],
    [sync |-> "none", args |-> <<>>, later |-> TRUE],
    [sync |-> "assume", args |-> <<>>, later |-> TRUE] }
  \cup { [sync |-> "call", args |-> a, later |-> FALSE] : a \in ArgLists }

---------------------------------------------------------------------------
(* Descriptors *)

DescIds == { "own", "own2", "m1", "m2" }

\* Attribute names and property keys used in the runs explored.  A string is
\* array-like: its own enumerable keys are the indexes "0", "1", ...
AttrNames == { "id", "a", "b", "" }
NamedKeys == { "type", "required", "maxLength", "unique", "primaryKey",
               "autoIncrement", "defaultsTo" }
IndexKeys == { "0", "1", "2", "3", "4", "5", "6", "7", "8", "9", "10", "11", "12" }
PropKeys == NamedKeys \cup IndexKeys

\* The properties of an object: a set of <<key, value>> pairs, one for a key.
NoProps == {}
Keys(p) == { e[1] : e \in p }
Get(p, k) == IF k \in Keys(p) THEN (CHOOSE e \in p : e[1] = k)[2] ELSE "absent"

\* What is stored under an attribute name: nothing, a plain object (held by
\* value: the builder never stores one object under two names) or a function
\* object (held by reference; its own properties are in fnProps).
Absent == [kind |-> "absent", props |-> NoProps, fn |-> "none"]
Obj(p) == [kind |-> "obj", props |-> p, fn |-> "none"]
Fn(f) == [kind |-> "fn", props |-> NoProps, fn |-> f]

\* An attribute mapping: the <<name, what is stored>> pairs, one for a name,
\* in the order in which the names were first stored (the order in which the
\* object enumerates its keys); attributes[n] is what is stored under n.
NoAttributes == <<>>
Names(attributes) == { attributes[i][1] : i \in 1..Len(attributes) }
Stored(attributes, n) ==
  IF n \in Names(attributes)
    THEN attributes[CHOOSE i \in 1..Len(attributes) : attributes[i][1] = n][2]
    ELSE Absent

\* attributes[n] = value: a name already stored keeps its place, a new one
\* comes last.
put(attributes, n, value) ==
  IF n \in Names(attributes)
    THEN [attributes EXCEPT
            ![CHOOSE i \in 1..Len(attributes) : attributes[i][1] = n] = <<n, value>>]
    ELSE Append(attributes, <<n, value>>)

\* The empty object {}.  A descriptor: whether it has the key attributes and
\* what is under it, the lifecycle names holding a trampoline, those holding
\* a function of the caller, and another key of the caller's.
EmptyObject == [hasAttributes |-> FALSE, attributes |-> NoAttributes,
                trampolines |-> {}, userFunctions |-> {}, tableName |-> "absent"]

\* var workingModel = { attributes: {} }
InitialWorkingModel == [EmptyObject EXCEPT !.hasAttributes = TRUE]

\* The descriptors a caller hands to model() / create(): an empty object, and
\* one with attributes, another key and a function under a lifecycle name.
CallerModel1 == EmptyObject
CallerModel2 ==
  [hasAttributes |-> TRUE,
   attributes |-> << <<"a", Obj({ <<"type", "string">> })>> >>,
   trampolines |-> {}, userFunctions |-> { "beforeCreate" },
   tableName |-> "users"]

---------------------------------------------------------------------------
(* The event manager (mayordomo): declare, on, off, any, trigger *)

NoSubscriptions == <<>>

SubscriptionCount(s) == Len(s)

Range(q) == { q[i] : i \in 1..Len(q) }

\* The handlers subscribed to an event, in the order of their subscription.
RECURSIVE handlers(_, _)
handlers(s, lc) ==
  IF s = <<>> THEN <<>>
  ELSE (IF Head(s)[1] = lc THEN << Head(s)[2] >> ELSE <<>>) \o handlers(Tail(s), lc)

\* eventManager.any(name): does the event have a handler?
any(s, lc) == handlers(s, lc) # <<>>

\* eventManager.on(name, handler): the handler joins the end of the list.
on(s, lc, h) == Append(s, <<lc, h>>)

\* eventManager.off(name, handler): the handler leaves the list.
off(s, lc, h) == SelectSeq(s, LAMBDA e : e # <<lc, h>>)

---------------------------------------------------------------------------
(* The trampoline installed under each lifecycle name *)

Event(e, who, args) == [ev |-> e, who |-> who, args |-> args]

\* One call of the framework's continuation cb with the given arguments.
CallCb(st, who, args) == [st EXCEPT !.log = Append(@, Event("cb", who, args))]

\* adopt with the assignment lost: the flag stays as it was.
adoptLeavesFlag(st, who) ==
  [st EXCEPT !.log = Append(@, Event("adopt", who, <<>>))]

\* var adopt = function () { orphanCallback = false; };
adopt(st, who) ==
  [st EXCEPT !.orphanCallback = FALSE,
             !.log = Append(@, Event("adopt", who, <<>>))]

\* The first argument of a call, undefined when there is none.
FirstArgument(args) == IF Len(args) > 0 THEN args[1] ELSE "undefined"

\* wrappedCb without the call of adopt().
wrappedCbWithoutAdopt(st, who, args) ==
  CallCb([st EXCEPT !.log = Append(@, Event("wrappedCb", who, args))],
         who, <<FirstArgument(args)>>)

\* wrappedCb forwarding its whole argument list: fx.apply(null, arguments).
wrappedCbForwardsAll(st, who, args) ==
  CallCb(adopt([st EXCEPT !.log = Append(@, Event("wrappedCb", who, args))], who),
         who, args)

\* var wrappedCb = _.wrap(cb, function (fx, message) { adopt(); fx(message); });
wrappedCb(st, who, args) ==
  CallCb(adopt([st EXCEPT !.log = Append(@, Event("wrappedCb", who, args))], who),
         who, <<FirstArgument(args)>>)

\* The handler invoked with (instance, cb): the raw continuation, no adopt.
InvokeHandlerRawCb(st, inst, h, beh) ==
  LET entered == [st EXCEPT !.log = Append(@, Event("handler", h, <<inst, "cb">>))]
      acted == CASE beh.sync = "call" -> CallCb(entered, h, beh.args)
                 [] OTHER -> entered
  IN [acted EXCEPT !.log = Append(@, Event("handlerReturn", h, <<>>)),
                   !.pending = IF beh.later THEN @ \cup {h} ELSE @]

\* One handler invoked with (instance, wrappedCb, adopt), doing what beh says
\* before it returns.
InvokeHandler(st, inst, h, beh) ==
  LET entered == [st EXCEPT !.log =
                    Append(@, Event("handler", h, <<inst, "wrappedCb", "adopt">>))]
      acted == CASE beh.sync = "assume" -> adopt(entered, h)
                 [] beh.sync = "call" -> wrappedCb(entered, h, beh.args)
                 [] OTHER -> entered
  IN [acted EXCEPT !.log = Append(@, Event("handlerReturn", h, <<>>)),
                   !.pending = IF beh.later THEN @ \cup {h} ELSE @]

\* eventManager.trigger(name, [instance, wrappedCb, adopt]): every handler of
\* the list, in order, from the i-th on.
RECURSIVE TriggerHandlers(_, _, _, _, _)
TriggerHandlers(st, inst, hs, behs, i) ==
  IF i > Len(hs) THEN st
  ELSE TriggerHandlers(InvokeHandler(st, inst, hs[i], behs[i]), inst, hs, behs, i + 1)

\* The trampoline calling cb() after the handlers whether adopted or not.
TrampolineAlwaysCalls(s, lc, inst, behs) ==
  LET fresh == [lc |-> lc, inst |-> inst, orphanCallback |-> TRUE,
                log |-> <<>>, pending |-> {}]
  IN IF ~any(s, lc)
       THEN [CallCb(fresh, "trampoline", <<>>) EXCEPT
               !.log = Append(@, Event("return", "trampoline", <<>>))]
       ELSE [CallCb(TriggerHandlers(fresh, inst, handlers(s, lc), behs, 1), "trampoline", <<>>)
               EXCEPT !.log = Append(@, Event("return", "trampoline", <<>>))]

\* The trampoline with the test of orphanCallback inverted.
TrampolineTestInverted(s, lc, inst, behs) ==
  LET fresh == [lc |-> lc, inst |-> inst, orphanCallback |-> TRUE,
                log |-> <<>>, pending |-> {}]
  IN IF ~any(s, lc)
       THEN [CallCb(fresh, "trampoline", <<>>) EXCEPT
               !.log = Append(@, Event("return", "trampoline", <<>>))]
       ELSE LET ran == TriggerHandlers(fresh, inst, handlers(s, lc), behs, 1)
                done == IF ~ran.orphanCallback
                          THEN CallCb(ran, "trampoline", <<>>)
                          ELSE ran
            IN [done EXCEPT !.log = Append(@, Event("return", "trampoline", <<>>))]

\* The trampoline returning without cb() when nobody has subscribed.
TrampolineSilentWhenEmpty(s, lc, inst, behs) ==
  LET fresh == [lc |-> lc, inst |-> inst, orphanCallback |-> TRUE,
                log |-> <<>>, pending |-> {}]
  IN IF ~any(s, lc)
       THEN [fresh EXCEPT !.log = Append(@, Event("return", "trampoline", <<>>))]
       ELSE LET ran == TriggerHandlers(fresh, inst, handlers(s, lc), behs, 1)
                done == IF ran.orphanCallback
                          THEN CallCb(ran, "trampoline", <<>>)
                          ELSE ran
            IN [done EXCEPT !.log = Append(@, Event("return", "trampoline", <<>>))]

\* The trampoline with orphanCallback declared outside the function and not
\* set again at each call: an invocation finds the flag as the invocations
\* still held have left it.
TrampolineFlagNotRecreated(s, lc, inst, behs) ==
  LET fresh == [lc |-> lc, inst |-> inst,
                orphanCallback |-> \A i \in 1..Len(trigs) : trigs[i].orphanCallback,
                log |-> <<>>, pending |-> {}]
  IN IF ~any(s, lc)
       THEN [CallCb(fresh, "trampoline", <<>>) EXCEPT
               !.log = Append(@, Event("return", "trampoline", <<>>))]
       ELSE LET ran == TriggerHandlers(fresh, inst, handlers(s, lc), behs, 1)
                done == IF ran.orphanCallback
                          THEN CallCb(ran, "trampoline", <<>>)
                          ELSE ran
            IN [done EXCEPT !.log = Append(@, Event("return", "trampoline", <<>>))]

\* workingModel[lifecycleName] = function (instance, cb) { ... }
Trampoline(s, lc, inst, behs) ==
  LET fresh == [lc |-> lc, inst |-> inst, orphanCallback |-> TRUE,
                log |-> <<>>, pending |-> {}]
  IN IF ~any(s, lc)
       THEN [CallCb(fresh, "trampoline", <<>>) EXCEPT
               !.log = Append(@, Event("return", "trampoline", <<>>))]
       ELSE LET ran == TriggerHandlers(fresh, inst, handlers(s, lc), behs, 1)
                done == IF ran.orphanCallback
                          THEN CallCb(ran, "trampoline", <<>>)
                          ELSE ran
            IN [done EXCEPT !.log = Append(@, Event("return", "trampoline", <<>>))]

\* setupLifecycleEvents leaving alone the lifecycle names under which the
\* descriptor already holds a function.
setupLifecycleEventsKeepsCallers(m) ==
  [m EXCEPT !.trampolines = Lifecycles \ m.userFunctions]

\* function setupLifecycleEvents: a trampoline under each lifecycle name of
\* the descriptor.
setupLifecycleEvents(m) == [m EXCEPT !.trampolines = Lifecycles, !.userFunctions = {}]

---------------------------------------------------------------------------
(* The builder: the working model *)

\* model(model) installing an empty attribute mapping whatever the descriptor
\* holds.
modelResetsAttributes(m) ==
  setupLifecycleEvents([m EXCEPT !.hasAttributes = TRUE, !.attributes = NoAttributes])

\* model(model) of the current module, create(model) of the draft: the
\* descriptor gets an empty attribute mapping when it has none, and the
\* lifecycle trampolines.
model(m) ==
  setupLifecycleEvents(IF ~m.hasAttributes
                         THEN [m EXCEPT !.hasAttributes = TRUE,
                                        !.attributes = NoAttributes]
                         ELSE m)

FnIds == { "f1", "f2" }

\* No builder call on the attribute store yet.
NoCall == [op |-> "none", args |-> <<>>, copiesChars |-> FALSE, on |-> "undefined",
           before |-> NoAttributes, fnBefore |-> [f \in FnIds |-> NoProps]]

Init ==
  /\ impl \in { "current", "draft" }
  /\ workingModel = IF impl = "current" THEN "own" ELSE "undefined"
  /\ models = [d \in DescIds |->
                 CASE d = "own" -> IF impl = "current" THEN InitialWorkingModel
                                                       ELSE EmptyObject
                   [] d = "own2" -> EmptyObject
                   [] d = "m1" -> CallerModel1
                   [] OTHER -> CallerModel2]
  /\ fnProps = [f \in FnIds |-> NoProps]
  /\ exported = "none"
  /\ subs = NoSubscriptions
  /\ unsub = {}
  /\ trigs = <<>>
  /\ subsAtModel = {}
  /\ last = NoCall
  /\ calls = 0

\* modelBuilder.model(model), with an argument.
Model(d) ==
  /\ impl = "current"
  /\ workingModel' = d
  /\ models' = [models EXCEPT ![d] = model(@)]
  /\ subsAtModel' = { x \in subsAtModel : x[1] # d }
                      \cup { <<d, e[1], e[2]>> : e \in Range(subs) }
  /\ UNCHANGED <<impl, exported, dispatcherVars, storeVars>>

\* if (!model) model = {}: the objects create() makes when called without a
\* model, in the order in which it makes them; one not made yet is the empty
\* object.  The runs explored have as many calls of create() as there are
\* objects here.
NewObjects == << "own", "own2" >>
NotMadeYet(d) == models[d] = EmptyObject
IsNext(d) ==
  \E i \in 1..Len(NewObjects) :
     /\ NewObjects[i] = d
     /\ NotMadeYet(d)
     /\ \A j \in 1..(i - 1) : ~NotMadeYet(NewObjects[j])

\* modelBuilder.create(model) of the draft; without an argument the model is
\* a new empty object, whatever create() made before is left as it is.
Create(d) ==
  /\ impl = "draft"
  /\ d \in Range(NewObjects) => IsNext(d)
  /\ workingModel' = d
  /\ models' = [models EXCEPT ![d] = model(@)]
  /\ subsAtModel' = { x \in subsAtModel : x[1] # d }
                      \cup { <<d, e[1], e[2]>> : e \in Range(subs) }
  /\ UNCHANGED <<impl, exported, dispatcherVars, storeVars>>

\* modelBuilder.setUpLifecycleEvents() of the draft, called by the user: the
\* trampolines are put on the working model again, over whatever is under the
\* lifecycle names; without a working model the call throws.
SetUpLifecycleEvents ==
  /\ impl = "draft"
  /\ workingModel # "undefined"
  /\ models' = [models EXCEPT ![workingModel] = setupLifecycleEvents(@)]
  /\ models' # models
  /\ UNCHANGED <<impl, workingModel, exported, dispatcherVars, subsAtModel, storeVars>>

\* modelBuilder.currentModel = d of the draft, assigned by the user: d is
\* the working model from then on, it gets neither attributes nor
\* trampolines.  d is an object the user holds: one of their own or one
\* create() has made.
SetCurrentModel(d) ==
  /\ impl = "draft"
  /\ d \in Range(NewObjects) => ~NotMadeYet(d)
  /\ workingModel' = d
  /\ workingModel' # workingModel
  /\ UNCHANGED <<impl, models, exported, dispatcherVars, subsAtModel, storeVars>>

\* modelBuilder.export(module)
Export ==
  /\ exported' = workingModel
  /\ exported' # exported
  /\ UNCHANGED <<impl, workingModel, models, dispatcherVars, subsAtModel, storeVars>>

---------------------------------------------------------------------------
(* The builder: the attribute store *)

\* The store an attribute call works on: the attribute mapping of the working
\* model and the function objects reachable from it.
Store == [attrs |-> models[workingModel].attributes, fns |-> fnProps]

\* _.extend(object, source): every own property of the source is set on the
\* object.
extend(object, source) ==
  { e \in object : e[1] \notin Keys(source) } \cup source

\* object[key] = value
set(object, key, value) ==
  { e \in object : e[1] # key } \cup { <<key, value>> }

\* A string handed to _.extend as the source: lodash 3 takes a string as
\* array-like and copies its characters under their indexes.
IndexKey == << "0", "1", "2", "3", "4", "5", "6", "7", "8", "9", "10", "11", "12" >>
Chars(str) ==
  CASE str = "type" -> << "t", "y", "p", "e" >>
    [] str = "required" -> << "r", "e", "q", "u", "i", "r", "e", "d" >>
    [] str = "maxLength" -> << "m", "a", "x", "L", "e", "n", "g", "t", "h" >>
    [] str = "unique" -> << "u", "n", "i", "q", "u", "e" >>
    [] str = "primaryKey" -> << "p", "r", "i", "m", "a", "r", "y", "K", "e", "y" >>
    [] str = "autoIncrement" ->
         << "a", "u", "t", "o", "I", "n", "c", "r", "e", "m", "e", "n", "t" >>
    [] str = "defaultsTo" -> << "d", "e", "f", "a", "u", "l", "t", "s", "T", "o" >>
    [] str \in IndexKeys /\ str \notin { "10", "11", "12" } -> << str >>
    [] str = "10" -> << "1", "0" >>
    [] str = "11" -> << "1", "1" >>
    [] str = "12" -> << "1", "2" >>
StringAsSource(str) == { <<IndexKey[i], Chars(str)[i]>> : i \in 1..Len(Chars(str)) }

\* currentAttribute = workingModel.attributes[attributeName] || {};
Current(st, n) == IF Stored(st.attrs, n).kind = "absent" THEN Obj(NoProps)
                                                         ELSE Stored(st.attrs, n)

\* _.extend(currentAttribute, source); attributes[attributeName] = currentAttribute;
\* a function object is extended in place.
ExtendCurrent(st, n, source) ==
  LET currentAttribute == Current(st, n)
  IN IF currentAttribute.kind = "fn"
       THEN [attrs |-> put(st.attrs, n, currentAttribute),
             fns |-> [st.fns EXCEPT ![currentAttribute.fn] = extend(@, source)]]
       ELSE [attrs |-> put(st.attrs, n, Obj(extend(currentAttribute.props, source))),
             fns |-> st.fns]

\* Overload 1, one entry of the mapping.
attrEntry(st, n, attribute) ==
  IF attribute.kind # "fn"
    THEN ExtendCurrent(st, n, attribute.props)
    ELSE [st EXCEPT !.attrs = put(@, n, attribute)]

\* Overload 1: _.each(attributes, ...), from the i-th entry on.
RECURSIVE attrMapping(_, _, _)
attrMapping(st, entries, i) ==
  IF i > Len(entries) THEN st
  ELSE attrMapping(attrEntry(st, entries[i].name, entries[i].attribute), entries, i + 1)

\* Overload 2: currentAttribute[propertyName] = value;
attrProperty(st, n, propertyName, value) ==
  LET currentAttribute == Current(st, n)
  IN IF currentAttribute.kind = "fn"
       THEN [attrs |-> put(st.attrs, n, currentAttribute),
             fns |-> [st.fns EXCEPT ![currentAttribute.fn] = set(@, propertyName, value)]]
       ELSE [attrs |-> put(st.attrs, n,
                           Obj(set(currentAttribute.props, propertyName, value))),
             fns |-> st.fns]

\* Overload 3: _.each(attributes, ...) over the names, from the i-th on.
RECURSIVE attrShared(_, _, _, _)
attrShared(st, names, sharedProperties, i) ==
  IF i > Len(names) THEN st
  ELSE attrShared(ExtendCurrent(st, names[i], sharedProperties), names, sharedProperties, i + 1)

\* attr(attributes, sharedProperties, value) of the current module: the
\* overload is chosen by the shape of the first argument, then by the number
\* of arguments.
attr(st, a) ==
  IF a.shape = "mapping" THEN attrMapping(st, a.entries, 1)
  ELSE IF a.n = 3 THEN attrProperty(st, a.names[1], a.key, a.value)
  ELSE attrShared(st, a.names, a.shared, 1)

\* attr of the draft: overload 2 does not return, so overload 3 runs after it
\* with the property name as the shared properties.  What _.extend does with
\* a string source depends on the lodash installed: copiesChars.
attrDraft(st, a, copiesChars) ==
  IF a.shape = "mapping" THEN attrMapping(st, a.entries, 1)
  ELSE IF a.n = 3
    THEN attrShared(attrProperty(st, a.names[1], a.key, a.value), a.names,
                    IF copiesChars THEN StringAsSource(a.key) ELSE NoProps, 1)
  ELSE attrShared(st, a.names, a.shared, 1)

\* The arguments of a call of attr.
MappingArgs(entries) ==
  [shape |-> "mapping", entries |-> entries, names |-> <<>>, n |-> 1,
   key |-> "none", value |-> "none", shared |-> NoProps]
PropertyArgs(name, key, value) ==
  [shape |-> "name", entries |-> <<>>, names |-> <<name>>, n |-> 3,
   key |-> key, value |-> value, shared |-> NoProps]
SharedArgs(names, shared) ==
  [shape |-> "array", entries |-> <<>>, names |-> names, n |-> 2,
   key |-> "none", value |-> "none", shared |-> shared]

\* _.keys(workingModel.attributes): the names of the attributes present, in
\* the order in which they were first stored.
RECURSIVE keys(_)
keys(attrs) ==
  IF attrs = <<>> THEN <<>> ELSE << Head(attrs)[1] >> \o keys(Tail(attrs))

\* require(): the names are the keys of the store when there is no argument,
\* the array given as first argument, or the arguments themselves.
require(st, form, names) ==
  LET attributeNames == IF form = "none" THEN keys(st.attrs) ELSE names
  IN attr(st, SharedArgs(attributeNames, { <<"required", "true">> }))

\* intKey with autoIncrement || true in the place of the test for undefined.
intKeyFalseIsDefault(st, autoIncrement) ==
  [st EXCEPT !.attrs = put(@, "id",
     Obj({ <<"type", "integer">>, <<"unique", "true">>, <<"primaryKey", "true">>,
           <<"autoIncrement", IF autoIncrement \in {"undefined", "false"}
                                THEN "true" ELSE autoIncrement>> }))]

\* intKey(autoIncrement)
intKey(st, autoIncrement) ==
  [st EXCEPT !.attrs = put(@, "id",
     Obj({ <<"type", "integer">>, <<"unique", "true">>, <<"primaryKey", "true">>,
           <<"autoIncrement", IF autoIncrement = "undefined" THEN "true"
                                                             ELSE autoIncrement>> }))]

\* uuidKey()
uuidKey(st) ==
  [st EXCEPT !.attrs = put(@, "id",
     Obj({ <<"type", "string">>, <<"unique", "true">>, <<"primaryKey", "true">>,
           <<"defaultsTo", "function">> }))]

\* The incoming descriptors and property mappings of the runs explored.
StringMax45 == { <<"type", "string">>, <<"maxLength", "45">> }
Required == { <<"required", "true">> }
TypeInteger == { <<"type", "integer">> }

Entry(n, attribute) == [name |-> n, attribute |-> attribute]

\* A function is stored by reference: f1 is handed over under a and under b,
\* so that one function object can be what two names hold; f2 under b only.
Mappings ==
  { << Entry("a", Obj(StringMax45)) >>,
    << Entry("a", Obj(Required)) >>,
    << Entry("a", Obj(TypeInteger)), Entry("b", Obj(StringMax45)) >>,
    << Entry("b", Obj(Required)), Entry("a", Fn("f1")) >>,
    << Entry("b", Fn("f1")) >>,
    << Entry("b", Fn("f2")) >> }

PropertyInputs == { <<"type", "integer">>, <<"required", "true">>, <<"maxLength", "45">> }
RequireInputs == { <<"none", <<>> >>, <<"variadic", <<"a">> >>,
                   <<"variadic", <<"b", "a">> >>, <<"array", <<"b", "a">> >> }
NameLists == { << "a" >>, << "b", "a" >> }

\* The store after a call is written back; last keeps the call (its name and
\* its arguments) and the store before it.  On a working model without the
\* key attributes (the draft, after currentModel was assigned) a call that
\* reads attributes[name] throws before it has changed anything; require()
\* then has no name to go through.
StoreCall(op, args, copiesChars, st) ==
  /\ workingModel # "undefined"
  /\ models[workingModel].hasAttributes \/ (op = "require" /\ args[1] = "none")
  /\ calls < MaxCalls
  /\ models' = [models EXCEPT ![workingModel].attributes = st.attrs]
  /\ fnProps' = st.fns
  /\ last' = [op |-> op, args |-> args, copiesChars |-> copiesChars,
              on |-> workingModel,
              before |-> models[workingModel].attributes, fnBefore |-> fnProps]
  /\ calls' = calls + 1
  /\ UNCHANGED <<impl, workingModel, exported, dispatcherVars, subsAtModel>>

\* modelBuilder.attr({ name: descriptor, ... })
AttrMapping(entries) ==
  /\ workingModel # "undefined"
  /\ StoreCall("attrMapping", entries, FALSE,
               IF impl = "current" THEN attr(Store, MappingArgs(entries))
                                   ELSE attrDraft(Store, MappingArgs(entries), FALSE))

\* modelBuilder.attr(name, propertyName, value)
AttrProperty(name, key, value, copiesChars) ==
  /\ workingModel # "undefined"
  /\ copiesChars => impl = "draft"
  /\ StoreCall("attrProperty", <<name, key, value>>, copiesChars,
               IF impl = "current"
                 THEN attr(Store, PropertyArgs(name, key, value))
                 ELSE attrDraft(Store, PropertyArgs(name, key, value), copiesChars))

\* modelBuilder.attr(names, sharedProperties)
AttrShared(names, shared) ==
  /\ workingModel # "undefined"
  /\ StoreCall("attrShared", <<names, shared>>, FALSE,
               IF impl = "current" THEN attr(Store, SharedArgs(names, shared))
                                   ELSE attrDraft(Store, SharedArgs(names, shared), FALSE))

\* modelBuilder.require(), require(name, ...), require([name, ...])
Require(form, names) ==
  /\ workingModel # "undefined"
  /\ form = "none" => names = <<>>
  /\ StoreCall("require", <<form, names>>, FALSE, require(Store, form, names))

\* modelBuilder.intKey(autoIncrement)
IntKey(autoIncrement) ==
  /\ workingModel # "undefined"
  /\ StoreCall("intKey", <<autoIncrement>>, FALSE, intKey(Store, autoIncrement))

\* modelBuilder.uuidKey()
UuidKey ==
  /\ workingModel # "undefined"
  /\ StoreCall("uuidKey", <<>>, FALSE, uuidKey(Store))

---------------------------------------------------------------------------
(* The builder: the event methods copied from the event manager *)

\* modelBuilder.on(name, handler), modelBuilder.beforeCreate(handler), ...
\* In the runs explored a handler is subscribed to a name once at a time.
On(lc, h) ==
  /\ h \notin Range(handlers(subs, lc))
  /\ SubscriptionCount(subs) < MaxSubs
  /\ subs' = on(subs, lc, h)
  /\ unsub' = unsub \ { <<lc, h>> }
  /\ UNCHANGED <<impl, workingModel, models, exported, trigs, subsAtModel, storeVars>>

\* modelBuilder.off(name, handler)
Off(lc, h) ==
  /\ h \in Range(handlers(subs, lc))
  /\ subs' = off(subs, lc, h)
  /\ unsub' = unsub \cup { <<lc, h>> }
  /\ UNCHANGED <<impl, workingModel, models, exported, trigs, subsAtModel, storeVars>>

\* eventManager.trigger(name, args) as the builder exposes it: every handler
\* of the list, in order, from the i-th on, is called with the arguments
\* passed on, and nothing else happens.
RECURSIVE trigger(_, _, _, _)
trigger(st, hs, passed, i) ==
  IF i > Len(hs) THEN st
  ELSE trigger([st EXCEPT !.log = Append(Append(@, Event("handler", hs[i], passed)),
                                         Event("handlerReturn", hs[i], <<>>))],
               hs, passed, i + 1)

---------------------------------------------------------------------------
(* The framework and the handlers *)

\* The invocations some handler still holds the continuation of; the closures
\* of the others are garbage once the next invocation starts.
Held(ts) == SelectSeq(ts, LAMBDA t : t.pending # {})

\* What a handler does that leaves its second and third argument alone.
DoesNothing == [sync |-> "none", args |-> <<>>, later |-> FALSE]

\* modelBuilder.trigger(name, instance): the event manager's own trigger,
\* copied to the builder.  It is given the instance where the trampoline
\* gives an array of arguments; passed is what the handlers receive of it.
\* There is no continuation, no wrapped continuation and no adopt in this
\* call; the handlers of the runs explored do not use them.
BuilderTrigger(lc, inst, passed) ==
  /\ Len(Held(trigs)) < MaxTriggers
  /\ trigs' = Append(Held(trigs),
                     [trigger([lc |-> lc, inst |-> inst, orphanCallback |-> TRUE,
                               log |-> <<>>, pending |-> {}],
                              handlers(subs, lc), passed, 1)
                        EXCEPT !.log = Append(@, Event("return", "trigger", <<>>))]
                       @@ [subscribed |-> handlers(subs, lc),
                           removed |-> { e[2] : e \in { x \in unsub : x[1] = lc } },
                           behs |-> [i \in 1..Len(handlers(subs, lc)) |-> DoesNothing],
                           on |-> "trigger"])
  /\ UNCHANGED <<impl, workingModel, models, exported, subs, unsub, subsAtModel,
                 storeVars>>

\* The framework calls descriptor[lc](instance, cb) with a new continuation;
\* behs says what each subscribed handler does on this invocation.  The
\* record keeps, beside the closure, what held when the call was made: the
\* subscribed handlers, the removed ones, and behs.
FrameworkCall(d, lc, inst, behs) ==
  /\ lc \in models[d].trampolines
  /\ Len(Held(trigs)) < MaxTriggers
  /\ trigs' = Append(Held(trigs),
                     Trampoline(subs, lc, inst, behs)
                       @@ [subscribed |-> handlers(subs, lc),
                           removed |-> { e[2] : e \in { x \in unsub : x[1] = lc } },
                           behs |-> behs, on |-> d])
  /\ UNCHANGED <<impl, workingModel, models, exported, subs, unsub, subsAtModel,
                 storeVars>>

\* The framework calls descriptor[lc](instance, cb) where the descriptor
\* holds, under lc, a function of the caller's: that function runs.
CallerFunctionCall(d, lc, inst) ==
  /\ lc \in models[d].userFunctions
  /\ Len(Held(trigs)) < MaxTriggers
  /\ trigs' = Append(Held(trigs),
                     [lc |-> lc, inst |-> inst, orphanCallback |-> TRUE,
                      log |-> << Event("callerFunction", "caller", <<inst, "cb">>) >>,
                      pending |-> {}, subscribed |-> handlers(subs, lc),
                      removed |-> { e[2] : e \in { x \in unsub : x[1] = lc } },
                      behs |-> <<>>, on |-> d])
  /\ UNCHANGED <<impl, workingModel, models, exported, subs, unsub, subsAtModel,
                 storeVars>>

\* The framework calls descriptor[lc](instance, cb) while handlers still hold
\* the continuations of earlier invocations.
FrameworkCallDuringPending(d, lc, inst, behs) ==
  /\ lc \in models[d].trampolines
  /\ Held(trigs) # <<>>
  /\ Len(Held(trigs)) < MaxPending
  /\ trigs' = Append(Held(trigs),
                     Trampoline(subs, lc, inst, behs)
                       @@ [subscribed |-> handlers(subs, lc),
                           removed |-> { e[2] : e \in { x \in unsub : x[1] = lc } },
                           behs |-> behs, on |-> d])
  /\ UNCHANGED <<impl, workingModel, models, exported, subs, unsub, subsAtModel,
                 storeVars>>

\* A handler that kept the assume of invocation t calls it after the
\* trampoline returned (once, in the runs explored).
LaterAssume(t, h) ==
  /\ h \in trigs[t].pending
  /\ \A i \in 1..Len(trigs[t].log) :
        (trigs[t].log[i].ev = "adopt" /\ trigs[t].log[i].who = h) =>
          \E j \in 1..Len(trigs[t].log) : j > i /\ trigs[t].log[j].ev = "return"
  /\ trigs' = [trigs EXCEPT ![t] = adopt(@, h)]
  /\ UNCHANGED <<impl, workingModel, models, exported, subs, unsub, subsAtModel,
                 storeVars>>

\* A handler that kept the continuation of invocation t calls it, after the
\* trampoline returned.
LaterCall(t, h, args) ==
  /\ h \in trigs[t].pending
  /\ trigs' = [trigs EXCEPT ![t] = [wrappedCb(@, h, args) EXCEPT !.pending = @ \ {h}]]
  /\ UNCHANGED <<impl, workingModel, models, exported, subs, unsub, subsAtModel,
                 storeVars>>

---------------------------------------------------------------------------

(* What the claims speak of, read off an invocation's record *)

Trigs == Range(trigs)

\* The positions of the log holding an event e made by one of who.
At(r, e, who) == { i \in 1..Len(r.log) : r.log[i].ev = e /\ r.log[i].who \in who }

Anyone == Handlers \cup { "trampoline" }

\* How often the framework's continuation has been invoked.
CbCount(r) == Cardinality(At(r, "cb", Anyone))

\* Where the trampoline returned.
ReturnAt(r) == CHOOSE i \in 1..Len(r.log) : r.log[i].ev = "return"

Positions(r) == 1..Len(r.subscribed)

\* The handlers that do something about the continuation on this invocation.
Adopters(r) == { i \in Positions(r) : r.behs[i].sync # "none" \/ r.behs[i].later }

\* Every handler does nothing, calls the continuation during the pass, or
\* calls assume() and the continuation later.
ThreeBehaviours(r) ==
  \A i \in Positions(r) : r.behs[i].later => r.behs[i].sync = "assume"

\* No handler calls the continuation or assume() during the synchronous pass.
NobodyActsInPass(r) == \A i \in Positions(r) : r.behs[i].sync = "none"

\* The handlers that call the continuation during the synchronous pass.
SyncCallers(r) == { i \in Positions(r) : r.behs[i].sync = "call" }

\* The handlers that were to call the continuation later and have done so.
CalledLater(r) ==
  { r.subscribed[i] : i \in { j \in Positions(r) : r.behs[j].later } } \ r.pending

---------------------------------------------------------------------------
(* C1 *)

\* C1, as stated: on every invocation whose handlers each do nothing, call the
\* continuation during the pass or assume and call it later, the framework's
\* continuation is invoked at most once, and exactly once when every handler
\* that assumed has called it.
C1_AtMostOnce_AnyHandlers ==
  \A r \in Trigs :
    ThreeBehaviours(r) =>
      /\ CbCount(r) <= 1
      /\ r.pending = {} => CbCount(r) = 1

\* C1, amended: the continuation is invoked at least once when every handler
\* that assumed has called it, and at most once (so exactly once in the end)
\* when at most one of the handlers calls it or assumes; in general it is
\* invoked once for every call a handler makes, and once more by the
\* trampoline when no handler called it or assumed during the pass.
C1_ExactlyOnce_OneAdopter ==
  \A r \in Trigs :
    ThreeBehaviours(r) =>
      /\ r.pending = {} => CbCount(r) >= 1
      /\ Cardinality(Adopters(r)) <= 1 =>
            /\ CbCount(r) <= 1
            /\ r.pending = {} => CbCount(r) = 1
      /\ CbCount(r) = Cardinality(SyncCallers(r)) + Cardinality(CalledLater(r))
                        + IF NobodyActsInPass(r) THEN 1 ELSE 0

\* An invocation with two handlers, one of which assumed and has by now
\* called the continuation.
C1_Witness ==
  \E r \in Trigs :
    /\ Len(r.subscribed) = 2
    /\ ThreeBehaviours(r)
    /\ \E i \in Positions(r) : r.behs[i].sync = "assume"
    /\ Cardinality(Adopters(r)) = 1
    /\ r.pending = {}
    /\ CbCount(r) = 1

---------------------------------------------------------------------------
(* C2 *)

\* C2: when no handler is subscribed, or none calls assume() or the
\* continuation during the pass, the trampoline itself invokes the
\* continuation exactly once, with no arguments, as its last step before it
\* returns, after every handler has returned.
C2_AutoInvocation ==
  \A r \in Trigs :
    NobodyActsInPass(r) =>
      /\ Cardinality(At(r, "cb", {"trampoline"})) = 1
      /\ \A i \in At(r, "cb", {"trampoline"}) :
            /\ r.log[i].args = <<>>
            /\ i + 1 = ReturnAt(r)
            /\ \A j \in At(r, "handler", Handlers) \cup At(r, "handlerReturn", Handlers) :
                  j < i
      /\ Cardinality(At(r, "handlerReturn", Handlers)) = Len(r.subscribed)
      /\ \A i \in At(r, "cb", Handlers) : i > ReturnAt(r)

\* An invocation with two handlers that both did nothing during the pass.
C2_Witness ==
  \E r \in Trigs :
    /\ Len(r.subscribed) = 2
    /\ NobodyActsInPass(r)
    /\ At(r, "cb", {"trampoline"}) # {}

---------------------------------------------------------------------------
(* C3 *)

AssumedNotCalled(r) ==
  /\ \E i \in Positions(r) : r.behs[i].sync = "assume"
  /\ \A i \in Positions(r) : r.behs[i].sync # "call"

\* C3: when a handler calls assume() during the pass and nobody calls the
\* continuation during the pass, the trampoline does not invoke the
\* continuation; it stays un-invoked until a handler calls it, and each such
\* call invokes it exactly once.
C3_NoAutoInvocationOnceAssumed ==
  \A r \in Trigs :
    AssumedNotCalled(r) =>
      /\ At(r, "cb", {"trampoline"}) = {}
      /\ \A i \in At(r, "cb", Handlers) : i > ReturnAt(r)
      /\ \A h \in Handlers :
            Cardinality(At(r, "cb", {h})) = IF h \in CalledLater(r) THEN 1 ELSE 0

\* One handler, which assumed during the pass and has called the continuation
\* since.
C3_Witness ==
  \E r \in Trigs :
    /\ Len(r.subscribed) = 1
    /\ r.behs[1].sync = "assume"
    /\ r.pending = {}
    /\ CbCount(r) = 1

\* The same handler before it calls: the continuation is still un-invoked.
C3_WitnessPending ==
  \E r \in Trigs :
    /\ Len(r.subscribed) = 1
    /\ r.behs[1].sync = "assume"
    /\ r.pending # {}
    /\ CbCount(r) = 0

---------------------------------------------------------------------------
(* C4 *)

\* C4: one subscribed handler that calls the continuation it was given,
\* without assume(): the continuation is invoked exactly once, by that call,
\* and the trampoline does not add a second call.
C4_DirectCallAdopts ==
  \A r \in Trigs :
    (Len(r.subscribed) = 1 /\ r.behs[1].sync = "call") =>
      /\ CbCount(r) = 1
      /\ At(r, "cb", {"trampoline"}) = {}
      /\ ~r.orphanCallback

C4_Witness ==
  \E r \in Trigs :
    /\ Len(r.subscribed) = 1
    /\ r.behs[1].sync = "call"
    /\ At(r, "cb", {r.subscribed[1]}) # {}

---------------------------------------------------------------------------
(* C6 *)

\* C6, as stated: every call of the wrapped continuation marks the invocation
\* adopted and calls the original continuation with the same argument list.
C6_SameArgumentList ==
  \A r \in Trigs :
    \A i \in At(r, "wrappedCb", Handlers) :
      /\ i + 2 <= Len(r.log)
      /\ r.log[i + 1].ev = "adopt"
      /\ r.log[i + 2].ev = "cb"
      /\ r.log[i + 2].args = r.log[i].args

\* C6, amended: every call of the wrapped continuation marks the invocation
\* adopted and then calls the original continuation with exactly one
\* argument, the first argument of the call (undefined when the call has
\* none); the arguments after the first are dropped.
C6_FirstArgumentOnly ==
  \A r \in Trigs :
    \A i \in At(r, "wrappedCb", Handlers) :
      /\ i + 2 <= Len(r.log)
      /\ r.log[i + 1].ev = "adopt"
      /\ r.log[i + 2].ev = "cb"
      /\ r.log[i + 2].who = r.log[i].who
      /\ Len(r.log[i + 2].args) = 1
      /\ r.log[i].args = <<>> => r.log[i + 2].args[1] = "undefined"
      /\ r.log[i].args # <<>> => r.log[i + 2].args[1] = r.log[i].args[1]
      /\ ~r.orphanCallback

\* The wrapped continuation has been called with no argument, with one and
\* with two.
C6_Witness ==
  \E r \in Trigs :
    \E i, j \in At(r, "wrappedCb", Handlers) :
      /\ Len(r.log[i].args) = 2
      /\ Len(r.log[j].args) = 1

C6_WitnessNoArgument ==
  \E r \in Trigs :
    \E i \in At(r, "wrappedCb", Handlers) : r.log[i].args = <<>>

---------------------------------------------------------------------------
(* C7 *)

\* The handlers invoked, in the order of their invocation.
RECURSIVE InvokedFrom(_, _)
InvokedFrom(r, i) ==
  IF i > Len(r.log) THEN <<>>
  ELSE IF r.log[i].ev = "handler" THEN <<r.log[i].who>> \o InvokedFrom(r, i + 1)
  ELSE InvokedFrom(r, i + 1)

\* C7: on every invocation the handlers subscribed at that time are invoked
\* once each, in the order of subscription, before the trampoline returns,
\* each with (instance, wrappedCb, assume) and each only after the one before
\* it has returned, whatever the earlier handlers did.
C7_EveryHandlerInOrder ==
  \A r \in Trigs :
    /\ InvokedFrom(r, 1) = r.subscribed
    /\ \A i \in At(r, "handler", Handlers) :
          /\ i < ReturnAt(r)
          /\ r.log[i].args = <<r.inst, "wrappedCb", "adopt">>
          /\ \A j \in At(r, "handler", Handlers) :
                j < i => \E k \in At(r, "handlerReturn", {r.log[j].who}) : k < i

\* Two handlers, the first of which called the continuation during the pass.
C7_Witness ==
  \E r \in Trigs :
    /\ Len(r.subscribed) = 2
    /\ r.behs[1].sync = "call"
    /\ InvokedFrom(r, 1) = r.subscribed

---------------------------------------------------------------------------
(* C8 *)

\* C8: a handler removed from a lifecycle (and not subscribed again) is not
\* invoked by an invocation made afterwards, and an invocation made when no
\* handler is left invokes the continuation at once and runs no handler.
C8_RemovedHandlersNotInvoked ==
  \A r \in Trigs :
    /\ \A h \in r.removed : At(r, "handler", {h}) = {}
    /\ r.subscribed = <<>> =>
          r.log = << Event("cb", "trampoline", <<>>), Event("return", "trampoline", <<>>) >>

\* An invocation made after the last handler was removed.
C8_Witness ==
  \E r \in Trigs :
    /\ r.lc \in SubscribedNames
    /\ r.removed # {}
    /\ r.subscribed = <<>>
    /\ CbCount(r) = 1

\* An invocation made after one of two handlers was removed.
C8_WitnessOneLeft ==
  \E r \in Trigs :
    /\ r.removed # {}
    /\ Len(r.subscribed) = 1
    /\ At(r, "handler", {r.subscribed[1]}) # {}

---------------------------------------------------------------------------

(* C5 *)

\* C5: in every state the working model is a descriptor holding a trampoline
\* under each of the eight lifecycle names, and so does the descriptor handed
\* over by export.
C5_TrampolinesAlwaysInstalled ==
  /\ workingModel \in DescIds
  /\ models[workingModel].trampolines = Lifecycles
  /\ exported \in DescIds => models[exported].trampolines = Lifecycles

---------------------------------------------------------------------------
(* C9, C10: the state of the store after the last call *)

\* The properties of a stored descriptor: a function object's own properties
\* are held apart.
PropsOf(v, fns) == IF v.kind = "fn" THEN fns[v.fn] ELSE v.props

After(n) == Stored(models[last.on].attributes, n)
Before(n) == Stored(last.before, n)
PropsAfter(n) == PropsOf(After(n), fnProps)
PropsBefore(n) == PropsOf(Before(n), last.fnBefore)

\* The attribute n is as it was before the last call.
Untouched(n) ==
  /\ After(n) = Before(n)
  /\ PropsAfter(n) = PropsBefore(n)

\* The names of the mapping handed to the last call of attr(mapping).
EntryNames == { last.args[i].name : i \in 1..Len(last.args) }

\* C9: after attr(mapping), an entry that is not a function leaves under its
\* name a descriptor holding every incoming property with its incoming value
\* and every other property as it was stored (none when nothing was stored);
\* an entry that is a function leaves that function under its name; the
\* attributes the mapping does not name are as before.
C9_MappingMerges ==
  last.op = "attrMapping" =>
    /\ \A i \in 1..Len(last.args) :
          LET n == last.args[i].name
              incoming == last.args[i].attribute
          IN IF incoming.kind = "fn"
               THEN After(n) = incoming
               ELSE /\ After(n).kind # "absent"
                    /\ Before(n).kind = "fn" => After(n) = Before(n)
                    /\ Before(n).kind # "fn" => After(n).kind = "obj"
                    /\ \A k \in PropKeys :
                          Get(PropsAfter(n), k) = IF k \in Keys(incoming.props)
                                                    THEN Get(incoming.props, k)
                                                    ELSE Get(PropsBefore(n), k)
    /\ \A n \in AttrNames \ EntryNames : Untouched(n)

\* {type, maxLength} then {required}: the attribute holds the three.
C9_Witness ==
  /\ last.op = "attrMapping"
  /\ last.args = << Entry("a", Obj(Required)) >>
  /\ Before("a") = Obj(StringMax45)
  /\ After("a") = Obj({ <<"type", "string">>, <<"maxLength", "45">>,
                        <<"required", "true">> })

\* A function put in the place of a stored plain descriptor.
C9_WitnessFunction ==
  /\ last.op = "attrMapping"
  /\ \E i \in 1..Len(last.args) :
        /\ last.args[i].attribute.kind = "fn"
        /\ Before(last.args[i].name).kind = "obj"
        /\ After(last.args[i].name) = last.args[i].attribute

\* C10: after attr(name, key, value) the descriptor under the name is the
\* one stored before (empty when there was none) with that key set to that
\* value and no other property added or changed, and no other attribute has
\* changed.
C10_OnlyThatProperty ==
  last.op = "attrProperty" =>
    LET n == last.args[1]
    IN /\ After(n).kind # "absent"
       /\ \A k \in PropKeys :
             Get(PropsAfter(n), k) = IF k = last.args[2] THEN last.args[3]
                                                          ELSE Get(PropsBefore(n), k)
       /\ \A m \in AttrNames \ {n} : Untouched(m)

---------------------------------------------------------------------------
(* C11 *)

\* The names the last call of require marks: the ones given, or every name
\* of the store as it was before the call.
RequiredNames == IF last.args[1] = "none" THEN Names(last.before)
                                          ELSE Range(last.args[2])

\* C11: after require(name), require(name, ...) or require([name, ...]) every
\* named attribute is present and has required = true, with what was stored
\* under it (a function stays that function) and its other properties as
\* before, and every attribute not named is as before; after require() the
\* same holds with the names of the store at the time of the call, and on a
\* store with no attribute nothing changes.
C11_RequireMarksExactlyTheNamed ==
  last.op = "require" =>
    /\ \A n \in RequiredNames :
          /\ After(n).kind # "absent"
          /\ Before(n).kind = "fn" => After(n) = Before(n)
          /\ Before(n).kind # "fn" => After(n).kind = "obj"
          /\ \A k \in PropKeys :
                Get(PropsAfter(n), k) = IF k = "required" THEN "true"
                                                          ELSE Get(PropsBefore(n), k)
    /\ \A n \in AttrNames \ RequiredNames : Untouched(n)
    /\ (last.args[1] = "none" /\ last.before = NoAttributes) =>
          /\ models[last.on].attributes = NoAttributes
          /\ fnProps = last.fnBefore

\* require("b", "a") on a store holding a with other properties and no b:
\* b is created, a keeps its properties, both are required.
C11_Witness ==
  /\ last.op = "require"
  /\ last.args = << "variadic", << "b", "a" >> >>
  /\ Before("b").kind = "absent"
  /\ Before("a") = Obj(StringMax45)
  /\ After("b") = Obj(Required)
  /\ After("a") = Obj(StringMax45 \cup Required)

\* require() on a store holding two attributes, and on an empty store.
C11_WitnessAll ==
  /\ last.op = "require"
  /\ last.args[1] = "none"
  /\ Len(last.before) = 2
  /\ \A n \in Names(last.before) : Get(PropsAfter(n), "required") = "true"

C11_WitnessEmptyStore ==
  /\ last.op = "require"
  /\ last.args[1] = "none"
  /\ last.before = NoAttributes
  /\ models[last.on].attributes = NoAttributes

---------------------------------------------------------------------------
(* C12 *)

\* C12: no call stores an attribute under the empty string: the attribute
\* mapping of no descriptor has an entry named "".
C12_NoEmptyName ==
  \A d \in DescIds : "" \notin Names(models[d].attributes)

---------------------------------------------------------------------------
(* C13 *)

\* The step is a call of model(d), or of create(d) in the draft.
SetModel(d) == Model(d) \/ Create(d)

\* The step is a call the framework makes of a lifecycle function: a new
\* record ends the invocations held.
NewInvocation ==
  /\ trigs' # trigs
  /\ Len(trigs') > 0
  /\ trigs' = Append(Held(trigs), trigs'[Len(trigs')])

\* The invocation ran a function of the caller's, not a trampoline.
IsCallerFunction(r) == At(r, "callerFunction", {"caller"}) # {}

\* C13: a call of model(d) makes d the working model, gives it an empty
\* attribute mapping only when it has none, and the eight trampolines, and
\* leaves the subscriptions and the other descriptors as they are; every
\* invocation of a trampoline runs the handlers subscribed at that time,
\* whenever they subscribed; every later builder call on the attribute store
\* acts on the working model and on no other descriptor, and export hands
\* over the working model.
C13_SetModel ==
  [][ /\ \A d \in DescIds :
            SetModel(d) =>
              /\ workingModel' = d
              /\ models'[d].hasAttributes
              /\ models'[d].attributes = IF models[d].hasAttributes
                                           THEN models[d].attributes
                                           ELSE NoAttributes
              /\ models'[d].trampolines = Lifecycles
              /\ subs' = subs
              /\ \A e \in DescIds \ {d} : models'[e] = models[e]
      /\ NewInvocation =>
            LET r == trigs'[Len(trigs')]
            IN ~IsCallerFunction(r) =>
                 /\ r.lc \in models[r.on].trampolines
                 /\ InvokedFrom(r, 1) = handlers(subs, r.lc)
      /\ calls' # calls =>
            /\ last'.on = workingModel
            /\ workingModel' = workingModel
            /\ \A e \in DescIds \ {workingModel} : models'[e] = models[e]
      /\ exported' # exported => exported' = workingModel
    ]_vars

\* A descriptor with attributes of its own was made the working model after
\* another one was worked on: its mapping is kept, a later call has acted on
\* it, and one of its trampolines has run a handler subscribed before the
\* call of model and one subscribed after it.
C13_Witness ==
  /\ workingModel = "m2"
  /\ last.on = "m2"
  /\ Stored(models["m2"].attributes, "a") = Obj({ <<"type", "string">> })
  /\ Names(models["m2"].attributes) # {"a"}
  /\ models["m2"].trampolines = Lifecycles
  /\ \E r \in Trigs :
        /\ r.on = "m2"
        /\ ~IsCallerFunction(r)
        /\ \E i, j \in Positions(r) :
              /\ <<"m2", r.lc, r.subscribed[i]>> \in subsAtModel
              /\ <<"m2", r.lc, r.subscribed[j]>> \notin subsAtModel
              /\ { r.subscribed[i], r.subscribed[j] } \subseteq Range(InvokedFrom(r, 1))

\* A descriptor without attributes was made the working model and exported.
C13_WitnessNoAttributes ==
  /\ workingModel = "m1"
  /\ exported = "m1"
  /\ models["m1"].hasAttributes
  /\ models["m1"].trampolines = Lifecycles

---------------------------------------------------------------------------
(* C14 *)

\* C14: after intKey(v) the attribute id is exactly {type: integer, unique,
\* primaryKey, autoIncrement}, autoIncrement being true when v is undefined
\* and v otherwise; after uuidKey() it is exactly {type: string, unique,
\* primaryKey, defaultsTo: a function}; nothing of what was under id before
\* is left and no other attribute has changed.
C14_KeyShape ==
  /\ last.op = "intKey" =>
        /\ After("id") =
              Obj({ <<"type", "integer">>, <<"unique", "true">>, <<"primaryKey", "true">>,
                    <<"autoIncrement", IF last.args[1] = "undefined" THEN "true"
                                                                     ELSE last.args[1]>> })
        /\ \A n \in AttrNames \ {"id"} : Untouched(n)
        /\ fnProps = last.fnBefore
  /\ last.op = "uuidKey" =>
        /\ After("id") =
              Obj({ <<"type", "string">>, <<"unique", "true">>, <<"primaryKey", "true">>,
                    <<"defaultsTo", "function">> })
        /\ \A n \in AttrNames \ {"id"} : Untouched(n)
        /\ fnProps = last.fnBefore

\* intKey(false) on a store whose id was the generated key, required.
C14_Witness ==
  /\ last.op = "intKey"
  /\ last.args = << "false" >>
  /\ Get(PropsBefore("id"), "defaultsTo") = "function"
  /\ Get(PropsBefore("id"), "required") = "true"
  /\ Get(PropsAfter("id"), "autoIncrement") = "false"
  /\ Keys(PropsAfter("id")) = { "type", "unique", "primaryKey", "autoIncrement" }

\* uuidKey() on a store whose id was the sequential key.
C14_WitnessUuid ==
  /\ last.op = "uuidKey"
  /\ Get(PropsBefore("id"), "autoIncrement") # "absent"
  /\ Keys(PropsAfter("id")) = { "type", "unique", "primaryKey", "defaultsTo" }

---------------------------------------------------------------------------
(* C15 *)

\* The subscriptions of one lifecycle name holding the handlers hs.
RECURSIVE SubscriptionsOf(_, _)
SubscriptionsOf(lc, hs) ==
  IF hs = <<>> THEN <<>>
  ELSE << <<lc, Head(hs)>> >> \o SubscriptionsOf(lc, Tail(hs))

\* The calls of handlers and of the framework's continuation, in order.
Observed(log) == SelectSeq(log, LAMBDA x : x.ev \in { "handler", "cb" })

\* C15: an invocation made through the builder's trigger(name, instance)
\* calls the handlers, and handles the continuation, as the trampoline of
\* that name does for the same handlers and the same instance.
C15_TriggerIsTrampoline ==
  \A r \in Trigs :
    r.on = "trigger" =>
      Observed(r.log) =
        Observed(Trampoline(SubscriptionsOf(r.lc, r.subscribed), r.lc, r.inst, r.behs).log)

---------------------------------------------------------------------------
(* C16 *)

\* The names the last call of the shared-properties overload worked on,
\* directly or through require.
MergedNames ==
  CASE last.op = "attrShared" -> Range(last.args[1])
    [] last.op = "require" -> RequiredNames
    [] OTHER -> {}

\* C16: a function stored under a name a call of the shared-properties
\* overload works on (directly or through require) is still stored under
\* that name after the call, with its own properties as they were; and a
\* function stored under a name is replaced by something else only by the
\* mapping overload given a function for that name.
C16_FunctionUntouchedByMerge ==
  /\ \A n \in MergedNames :
        Before(n).kind = "fn" =>
          /\ After(n) = Before(n)
          /\ PropsAfter(n) = PropsBefore(n)
  /\ \A n \in AttrNames :
        (Before(n).kind = "fn" /\ After(n) # Before(n)) =>
          /\ last.op = "attrMapping"
          /\ \E i \in 1..Len(last.args) :
                last.args[i].name = n /\ last.args[i].attribute.kind = "fn"

---------------------------------------------------------------------------
(* C17 *)

\* Some handler of the invocation called assume() during the pass.
Assumed(r) == \E i \in Positions(r) : r.behs[i].sync = "assume"

\* The i-th invocation held was made while an earlier one, still held, was
\* adopted and pending: an invocation is dropped from trigs, at the next
\* call of the framework, once no handler holds its continuation.
MadeDuringAdopted(i) == \E j \in 1..(i - 1) : Assumed(trigs[j])

\* log extends before by events of the handler h alone.
ExtendedBy(before, log, h) ==
  /\ Len(log) > Len(before)
  /\ SubSeq(log, 1, Len(before)) = before
  /\ \A i \in (Len(before) + 1)..Len(log) : log[i].who = h

\* C17: an invocation made while an earlier one is adopted and pending
\* starts with its own flag: when its handlers do nothing during the pass
\* the trampoline invokes the continuation, once; and a call of assume() or
\* of the wrapped continuation kept from one invocation (a step that changes
\* a record and is not a new call of the framework) changes the record of
\* that invocation alone, where it clears the flag and, for the wrapped
\* continuation, invokes that invocation's continuation once.
C17_FlagPerInvocation ==
  /\ [](\A i \in 1..Len(trigs) :
          MadeDuringAdopted(i) =>
            /\ NobodyActsInPass(trigs[i]) =>
                  Cardinality(At(trigs[i], "cb", {"trampoline"})) = 1
            /\ (\A k \in Positions(trigs[i]) : trigs[i].behs[k] = DoesNothing) =>
                  trigs[i].orphanCallback)
  /\ [][ \A t \in 1..Len(trigs) :
            (~NewInvocation /\ Len(trigs') = Len(trigs) /\ trigs'[t] # trigs[t]) =>
              /\ \A u \in 1..Len(trigs) \ {t} : trigs'[u] = trigs[u]
              /\ ~trigs'[t].orphanCallback
              /\ \E h \in trigs[t].pending :
                    /\ ExtendedBy(trigs[t].log, trigs'[t].log, h)
                    /\ Cardinality(At(trigs'[t], "cb", {h}))
                         - Cardinality(At(trigs[t], "cb", {h})) \in {0, 1}
                    /\ Cardinality(At(trigs'[t], "wrappedCb", {h}))
                         - Cardinality(At(trigs[t], "wrappedCb", {h}))
                       = Cardinality(At(trigs'[t], "cb", {h}))
                         - Cardinality(At(trigs[t], "cb", {h}))
      ]_vars

\* Two invocations of the same lifecycle: the first assumed, the second was
\* made while the first was pending, with a handler that did nothing, and
\* was completed by the trampoline; the first has been completed since by
\* the call its handler kept.
C17_Witness ==
  /\ Len(trigs) = 2
  /\ trigs[1].lc = trigs[2].lc
  /\ Assumed(trigs[1])
  /\ Len(trigs[2].subscribed) > 0
  /\ NobodyActsInPass(trigs[2])
  /\ trigs[2].orphanCallback
  /\ At(trigs[2], "cb", {"trampoline"}) # {}
  /\ trigs[1].pending = {}
  /\ CbCount(trigs[1]) = 1
  /\ CbCount(trigs[2]) = 1

\* The same with the second invocation of another lifecycle.
C17_WitnessOtherLifecycle ==
  /\ Len(trigs) = 2
  /\ trigs[1].lc # trigs[2].lc
  /\ Assumed(trigs[1])
  /\ At(trigs[2], "cb", {"trampoline"}) # {}
  /\ trigs[1].pending = {}
  /\ CbCount(trigs[1]) = 1

---------------------------------------------------------------------------
(* C18 *)

\* C18: a call of model(d) leaves every key of d as it was but the eight
\* lifecycle names, each of which holds a trampoline afterwards, also where
\* d held a function of the caller's, and attributes, which is added when
\* missing; the draft's setUpLifecycleEvents() does the same to the working
\* model and adds no attributes; a function of the caller's under a
\* lifecycle name runs only on a descriptor that was never wired.
C18_WiringFrame ==
  [][ /\ \A d \in DescIds :
            SetModel(d) =>
              /\ models'[d].tableName = models[d].tableName
              /\ models[d].hasAttributes =>
                    /\ models'[d].hasAttributes
                    /\ models'[d].attributes = models[d].attributes
              /\ models'[d].trampolines = Lifecycles
              /\ models'[d].userFunctions = {}
      /\ SetUpLifecycleEvents =>
            /\ models'[workingModel].tableName = models[workingModel].tableName
            /\ models'[workingModel].hasAttributes = models[workingModel].hasAttributes
            /\ models'[workingModel].attributes = models[workingModel].attributes
            /\ models'[workingModel].trampolines = Lifecycles
            /\ models'[workingModel].userFunctions = {}
      /\ NewInvocation =>
            LET r == trigs'[Len(trigs')]
            IN IsCallerFunction(r) =>
                 /\ models[r.on].trampolines = {}
                 /\ r.lc \in models[r.on].userFunctions
    ]_vars

\* The descriptor that held a function under beforeCreate and another key
\* was handed to model: the other key is as it was, and the framework's
\* call of beforeCreate has run the trampoline.
C18_Witness ==
  /\ models["m2"].trampolines = Lifecycles
  /\ models["m2"].userFunctions = {}
  /\ models["m2"].tableName = "users"
  /\ \E r \in Trigs :
        /\ r.on = "m2"
        /\ r.lc = "beforeCreate"
        /\ ~IsCallerFunction(r)
        /\ At(r, "cb", Anyone) # {}

\* Before it is handed to model, the framework's call runs the caller's
\* function.
C18_WitnessBefore ==
  /\ models["m2"].trampolines = {}
  /\ \E r \in Trigs : r.on = "m2" /\ IsCallerFunction(r)

---------------------------------------------------------------------------

\* The dispatcher: one caller's descriptor is wired, handlers come and go,
\* the framework invokes the trampolines.
Next ==
  \/ Model("m1")
  \/ Create("m1")
  \/ \E lc \in SubscribedNames, h \in Handlers : On(lc, h)
  \/ \E lc \in SubscribedNames, h \in Handlers : Off(lc, h)
  \/ \E d \in DescIds, lc \in TriggeredNames, inst \in Instances :
        \E behs \in [1..Len(handlers(subs, lc)) -> Behaviours] :
           FrameworkCall(d, lc, inst, behs)
  \/ \E t \in 1..Len(trigs), h \in Handlers, args \in LaterArgLists : LaterCall(t, h, args)

Spec == Init /\ [][Next]_vars

\* The wiring: the builder's own objects and a descriptor of the caller's
\* are made the working model, wired and exported, handlers subscribe, the
\* framework invokes what trampolines there are.
NextWiring ==
  \/ \E d \in {"own", "m2"} : Model(d)
  \/ \E d \in {"own", "own2", "m2"} : Create(d)
  \/ SetUpLifecycleEvents
  \/ \E d \in {"own", "m2"} : SetCurrentModel(d)
  \/ Export
  \/ \E lc \in SubscribedNames, h \in Handlers : On(lc, h)
  \/ \E d \in DescIds, lc \in TriggeredNames, inst \in Instances :
        \E behs \in [1..Len(handlers(subs, lc)) -> Behaviours] :
           FrameworkCall(d, lc, inst, behs)

SpecWiring == Init /\ [][NextWiring]_vars

\* The attribute store: the builder calls that shape the working model, a
\* descriptor of the caller's in the current module, the objects create()
\* makes in the draft.
NextStore ==
  \/ Model("m2")
  \/ \E d \in {"own", "own2"} : Create(d)
  \/ \E entries \in Mappings : AttrMapping(entries)
  \/ \E name \in {"a", "b"}, kv \in PropertyInputs, copiesChars \in BOOLEAN :
        AttrProperty(name, kv[1], kv[2], copiesChars)
  \/ \E names \in NameLists, shared \in {Required, StringMax45} : AttrShared(names, shared)
  \/ \E call \in RequireInputs : Require(call[1], call[2])
  \/ \E autoIncrement \in {"undefined", "true", "false"} : IntKey(autoIncrement)
  \/ UuidKey

SpecStore == Init /\ [][NextStore]_vars

\* The attribute store called with the empty string as a name.
NextNames ==
  \/ Model("m2")
  \/ Create("own")
  \/ AttrMapping(<< Entry("", Obj(Required)) >>)
  \/ \E name \in {"", "a"}, kv \in PropertyInputs, copiesChars \in BOOLEAN :
        AttrProperty(name, kv[1], kv[2], copiesChars)
  \/ \E names \in { << "" >>, << "a", "" >> } : AttrShared(names, StringMax45)
  \/ \E call \in { <<"none", <<>> >>, <<"variadic", << "" >> >>,
                    <<"array", << "a", "" >> >> } : Require(call[1], call[2])

SpecNames == Init /\ [][NextNames]_vars

\* The two ways into the handlers: the framework through a trampoline, the
\* caller through the builder's trigger.
NextTrigger ==
  \/ Model("m1")
  \/ Create("m1")
  \/ \E lc \in SubscribedNames, h \in Handlers : On(lc, h)
  \/ \E lc \in SubscribedNames, h \in Handlers : Off(lc, h)
  \/ \E d \in DescIds, lc \in TriggeredNames, inst \in Instances :
        \E behs \in [1..Len(handlers(subs, lc)) -> Behaviours] :
           FrameworkCall(d, lc, inst, behs)
  \/ \E lc \in TriggeredNames, inst \in Instances :
        \E passed \in { <<inst>>, <<>> } : BuilderTrigger(lc, inst, passed)

SpecTrigger == Init /\ [][NextTrigger]_vars

\* What the handlers do in the runs where invocations overlap.
OverlapBehaviours ==
  { DoesNothing, [sync |-> "assume", args |-> <<>>, later |-> TRUE],
    [sync |-> "call", args |-> <<>>, later |-> FALSE] }

\* Overlapping invocations: the framework calls a trampoline while handlers
\* of earlier invocations still hold their continuation.
NextOverlap ==
  \/ Model("m1")
  \/ Create("m1")
  \/ \E lc \in SubscribedNames : On(lc, "h1")
  \/ \E d \in DescIds, lc \in TriggeredNames, inst \in Instances :
        \E behs \in [1..Len(handlers(subs, lc)) -> OverlapBehaviours] :
           FrameworkCall(d, lc, inst, behs)
  \/ \E d \in DescIds, lc \in TriggeredNames, inst \in Instances :
        \E behs \in [1..Len(handlers(subs, lc)) -> OverlapBehaviours] :
           FrameworkCallDuringPending(d, lc, inst, behs)
  \/ \E t \in 1..Len(trigs), h \in Handlers : LaterAssume(t, h)
  \/ \E t \in 1..Len(trigs), h \in Handlers, args \in LaterArgLists : LaterCall(t, h, args)

SpecOverlap == Init /\ [][NextOverlap]_vars

\* What the handlers do in the runs where the descriptors change hands.
QuietBehaviours ==
  { [sync |-> "none", args |-> <<>>, later |-> FALSE],
    [sync |-> "call", args |-> <<>>, later |-> FALSE] }

\* The working model changes hands: descriptors of the caller's are made the
\* working model, worked on and exported, handlers subscribe, and the
\* framework calls what is under the lifecycle names of each descriptor.
NextSetModel ==
  \/ \E d \in {"m1", "m2"} : Model(d)
  \/ \E d \in {"m1", "m2"} : Create(d)
  \/ SetUpLifecycleEvents
  \/ \E d \in {"m1", "m2"} : SetCurrentModel(d)
  \/ Export
  \/ \E lc \in SubscribedNames, h \in Handlers : On(lc, h)
  \/ \E d \in DescIds, lc \in SubscribedNames, inst \in Instances :
        \E behs \in [1..Len(handlers(subs, lc)) -> QuietBehaviours] :
           FrameworkCall(d, lc, inst, behs)
  \/ \E d \in DescIds, lc \in SubscribedNames, inst \in Instances :
        CallerFunctionCall(d, lc, inst)
  \/ \E copiesChars \in BOOLEAN : AttrProperty("b", "type", "integer", copiesChars)

SpecSetModel == Init /\ [][NextSetModel]_vars

====
